---- MODULE Spec2Model ----
(***************************************************************************)
(* unitconv: a terminal unit converter with a persisted conversion history *)
(* (src/src/{main,lib,cli,converter,history,units}.rs).                    *)
(*                                                                         *)
(* Numbers.  The program computes in f64.  The model computes in exact     *)
(* rationals [n, d] (d > 0, lowest terms): the inputs are short decimals   *)
(* and every result is printed with four fractional digits, so the f64     *)
(* rounding error (about 1e-16 relative) changes a printed digit only when *)
(* the exact result lies on a rounding tie.  A tie of a value that f64     *)
(* holds exactly (a dyadic rational) is rounded half-to-even as Rust's     *)
(* formatter does; for any other tie the side on which the f64 value falls *)
(* is not determined by the model and is the free input fp_tie.            *)
(*                                                                         *)
(* Text.  A formatted number is built as a sequence of one-character       *)
(* strings, so that trimming and inspection act on characters; Join turns  *)
(* it into a string.                                                       *)
(***************************************************************************)
EXTENDS Integers, Sequences, FiniteSets, TLC

VARIABLES
    pc,           \* position of the running process in main/run, "idle" between invocations
    cli,          \* the parsed command line (Cli::parse)
    history,      \* run's local `history`: the in-memory History.list
    updated,      \* run's local `updated`
    result,       \* the Result that run hands to main
    file,         \* data/history.json: [exists, data]
    stdout,       \* lines printed to standard output by the current/last invocation
    stderr,       \* lines printed to standard error by the current/last invocation
    status,       \* "none" | "running" | "exited" | "killed"
    exit_code,    \* exit status of the last invocation that exited
    load_failed,  \* whether History::load returned Err in this invocation
    ops,          \* the operations (load, convert, append, save) this invocation performed, in order
    file0,        \* the file as it was when the invocation started
    committed,    \* the record texts written by the last save that returned Ok
    committed0,   \* committed, as it was when the invocation started
    fp_tie,       \* "up" | "down": side on which an inexact f64 falls at a decimal rounding tie
    call,         \* pure-function harness: the call under test
    ret           \* pure-function harness: what the call returned

vars == <<pc, cli, history, updated, result, file, stdout, stderr, status,
          exit_code, load_failed, ops, file0, committed, committed0, fp_tie,
          call, ret>>

-----------------------------------------------------------------------------
(* Bounds of the model *)

MaxRecords == 2      \* convert is not started once the file holds this many records
MaxNum == 12         \* numerators of the values the conversion harness draws

-----------------------------------------------------------------------------
(* Exact rational arithmetic standing in for f64 *)

Abs(x) == IF x < 0 THEN -x ELSE x

RECURSIVE Gcd(_, _)
Gcd(a, b) == IF b = 0 THEN a ELSE Gcd(b, a % b)

Rat(n, d) ==
    LET g == Gcd(Abs(n), Abs(d))
        s == IF d < 0 THEN -1 ELSE 1
    IN  [n |-> s * (n \div g), d |-> s * (d \div g)]

RAdd(a, b) == Rat(a.n * b.d + b.n * a.d, a.d * b.d)
RSub(a, b) == Rat(a.n * b.d - b.n * a.d, a.d * b.d)
\* the product, reduced crosswise before multiplying so that intermediates stay small
RMul(a, b) ==
    LET g1 == Gcd(Abs(a.n), b.d)
        g2 == Gcd(Abs(b.n), a.d)
    IN  [n |-> (a.n \div g1) * (b.n \div g2), d |-> (a.d \div g2) * (b.d \div g1)]
RInv(b) == IF b.n < 0 THEN [n |-> -b.d, d |-> -b.n] ELSE [n |-> b.d, d |-> b.n]
RDiv(a, b) == RMul(a, RInv(b))
Whole(k) == [n |-> k, d |-> 1]

\* The numeric literals of converter.rs
FreezeF == 32
CmPerKm == 100000
CmPerMile == 160930
KelvinOffset == Rat(27315, 100)
CmPerInch == Rat(254, 100)
FiveNinths == Rat(5, 9)
NineFifths == Rat(9, 5)

-----------------------------------------------------------------------------
(* units.rs *)

Unit == {"Celsius", "Fahrenheit", "Kelvin", "Centimeter", "Inch", "Kilometer", "Mile"}

\* Unit::dimension, with UnitDimension rendered by its Display impl
dimension(u) ==
    IF u \in {"Celsius", "Fahrenheit", "Kelvin"} THEN "temperature" ELSE "length"

\* impl Display for Unit
UnitToString(u) ==
    CASE u = "Celsius" -> "celsius"
      [] u = "Fahrenheit" -> "fahrenheit"
      [] u = "Kelvin" -> "kelvin"
      [] u = "Centimeter" -> "cm"
      [] u = "Inch" -> "inch"
      [] u = "Kilometer" -> "km"
      [] u = "Mile" -> "miles"

\* Unit::symbol
symbol(u) ==
    CASE u = "Celsius" -> "°C"
      [] u = "Fahrenheit" -> "°F"
      [] u = "Kelvin" -> "K"
      [] u = "Centimeter" -> "cm"
      [] u = "Inch" -> "inch"
      [] u = "Kilometer" -> "km"
      [] u = "Mile" -> "miles"

\* Unit::all_units
all_units == <<"Celsius", "Fahrenheit", "Kelvin", "Centimeter", "Inch", "Kilometer", "Mile">>

\* impl Display for UnitType
UnitTypeToString(t) == IF t = "Source" THEN "Source" ELSE "Target"

\* The unit strings the command line is given in the model, and str::to_lowercase on them
InputNames == {"km", "miles", "Celsius", "meter"}

to_lowercase(s) ==
    CASE s = "Celsius" -> "celsius"
      [] s = "KM" -> "km"
      [] OTHER -> s

Ok(v) == [ok |-> TRUE, val |-> v, msg |-> ""]
Err(m) == [ok |-> FALSE, val |-> "", msg |-> m]

\* get_enum
get_enum(unit, unit_type) ==
    LET l == to_lowercase(unit) IN
    CASE l = "celsius" -> Ok("Celsius")
      [] l = "fahrenheit" -> Ok("Fahrenheit")
      [] l = "kelvin" -> Ok("Kelvin")
      [] l = "cm" -> Ok("Centimeter")
      [] l = "inch" -> Ok("Inch")
      [] l = "km" -> Ok("Kilometer")
      [] l = "miles" -> Ok("Mile")
      [] OTHER -> Err("Error: [ERROR] " \o UnitTypeToString(unit_type)
                      \o " unit '" \o unit \o "' not recognized.")

-----------------------------------------------------------------------------
(* converter.rs *)

\* validate comparing the units themselves instead of their dimensions
validate_same_unit(from, to) ==
    IF from /= to
    THEN Err("Error: [ERROR] Cannot convert between different unit categories: ["
             \o dimension(from) \o "] " \o UnitToString(from) \o " → ["
             \o dimension(to) \o "] " \o UnitToString(to))
    ELSE Ok("")

\* validate
validate(from, to) ==
    IF dimension(from) /= dimension(to)
    THEN Err("Error: [ERROR] Cannot convert between different unit categories: ["
             \o dimension(from) \o "] " \o UnitToString(from) \o " → ["
             \o dimension(to) \o "] " \o UnitToString(to))
    ELSE Ok("")

\* convert: the first match (source unit to base unit)
base_val(from, value) ==
    CASE from = "Celsius" -> value
      [] from = "Fahrenheit" -> RMul(FiveNinths, RSub(value, Whole(FreezeF)))
      [] from = "Kelvin" -> RSub(value, KelvinOffset)
      [] from = "Centimeter" -> value
      [] from = "Inch" -> RMul(value, CmPerInch)
      [] from = "Kilometer" -> RMul(value, Whole(CmPerKm))
      [] from = "Mile" -> RMul(value, Whole(CmPerMile))

\* final_val with the mile factor "corrected" to 160934.4
final_val_exact_mile(to, base) ==
    CASE to = "Celsius" -> base
      [] to = "Fahrenheit" -> RAdd(RMul(NineFifths, base), Whole(FreezeF))
      [] to = "Kelvin" -> RAdd(base, KelvinOffset)
      [] to = "Centimeter" -> base
      [] to = "Inch" -> RDiv(base, CmPerInch)
      [] to = "Kilometer" -> RDiv(base, Whole(CmPerKm))
      [] to = "Mile" -> RDiv(base, Rat(1609344, 10))

\* convert: the second match (base unit to target unit)
final_val(to, base) ==
    CASE to = "Celsius" -> base
      [] to = "Fahrenheit" -> RAdd(RMul(NineFifths, base), Whole(FreezeF))
      [] to = "Kelvin" -> RAdd(base, KelvinOffset)
      [] to = "Centimeter" -> base
      [] to = "Inch" -> RDiv(base, CmPerInch)
      [] to = "Kilometer" -> RDiv(base, Whole(CmPerKm))
      [] to = "Mile" -> RDiv(base, Whole(CmPerMile))

\* convert
convert(from, to, value) ==
    LET v == validate(from, to) IN
    IF ~v.ok THEN Err(v.msg)
    ELSE IF from = to THEN Ok(value)
    ELSE Ok(final_val(to, base_val(from, value)))

-----------------------------------------------------------------------------
(* Text: sequences of one-character strings *)

DigitChars == <<"0", "1", "2", "3", "4", "5", "6", "7", "8", "9">>

RECURSIVE Join(_)
Join(cs) == IF cs = <<>> THEN "" ELSE Head(cs) \o Join(Tail(cs))

\* usize/integer Display: the decimal digits of k >= 0, as numbers
RECURSIVE Digits(_)
Digits(k) == IF k < 10 THEN <<k>> ELSE Append(Digits(k \div 10), k % 10)

DigitsToChars(ds) == [i \in 1..Len(ds) |-> DigitChars[ds[i] + 1]]

IntToString(k) == Join(DigitsToChars(Digits(k)))

\* k more digits of the decimal expansion of r/d (0 <= r < d), and the remainder left
RECURSIVE LongDiv(_, _, _)
LongDiv(r, d, k) ==
    IF k = 0 THEN [digits |-> <<>>, rem |-> r]
    ELSE LET rest == LongDiv((r * 10) % d, d, k - 1)
         IN  [digits |-> <<(r * 10) \div d>> \o rest.digits, rem |-> rest.rem]

\* the whole (terminating) decimal expansion of r/d; d must divide a power of ten
RECURSIVE FracAll(_, _)
FracAll(r, d) ==
    IF r = 0 THEN <<>> ELSE <<(r * 10) \div d>> \o FracAll((r * 10) % d, d)

\* add one in the last place of a digit string, carrying
RECURSIVE Increment(_)
Increment(ds) ==
    IF ds = <<>> THEN <<1>>
    ELSE IF ds[Len(ds)] < 9
         THEN [ds EXCEPT ![Len(ds)] = ds[Len(ds)] + 1]
         ELSE Append(Increment(SubSeq(ds, 1, Len(ds) - 1)), 0)

RECURSIVE IsPow2(_)
IsPow2(d) == d = 1 \/ (d % 2 = 0 /\ IsPow2(d \div 2))

Sign(value) == IF value.n < 0 THEN <<"-">> ELSE <<>>

\* f64::to_string (Display without precision): the shortest decimal text of the value,
\* with no decimal point when the value is integral
f64_to_string(value) ==
    LET a == Abs(value.n)
        frac == FracAll(a % value.d, value.d)
    IN  Sign(value) \o DigitsToChars(Digits(a \div value.d))
          \o (IF frac = <<>> THEN <<>> ELSE <<".">> \o DigitsToChars(frac))

\* the precision in format!("{:.4}", value)
Precision == 4

\* format!("{:.4}", value): exactly four fractional digits, the exact value rounded
\* to nearest, a tie to even
FormatFixed(value) ==
    LET a == Abs(value.n)
        d == value.d
        ld == LongDiv(a % d, d, Precision)
        trunc == Digits(a \div d) \o ld.digits
        up == \/ 2 * ld.rem > d
              \/ /\ 2 * ld.rem = d
                 /\ IF IsPow2(d) THEN trunc[Len(trunc)] % 2 = 1 ELSE fp_tie = "up"
        ds == IF up THEN Increment(trunc) ELSE trunc
        k == Len(ds) - Precision
    IN  Sign(value) \o DigitsToChars(SubSeq(ds, 1, k)) \o <<".">>
          \o DigitsToChars(SubSeq(ds, k + 1, Len(ds)))

Contains(cs, c) == \E i \in 1..Len(cs) : cs[i] = c

\* str::trim_end_matches(c)
RECURSIVE trim_end_matches(_, _)
trim_end_matches(cs, c) ==
    IF cs /= <<>> /\ cs[Len(cs)] = c
    THEN trim_end_matches(SubSeq(cs, 1, Len(cs) - 1), c)
    ELSE cs

ends_with(cs, c) == cs /= <<>> /\ cs[Len(cs)] = c

-----------------------------------------------------------------------------
(* lib.rs: format_value *)

\* format_value without the push of '0' after a trailing '.'
format_chars_no_restore(value, unit_type) ==
    LET str_value == IF unit_type = "Source" THEN f64_to_string(value) ELSE FormatFixed(value)
    IN  IF Contains(str_value, ".")
        THEN trim_end_matches(str_value, "0")
        ELSE str_value \o <<".", "0">>

\* format_value, as characters
format_chars(value, unit_type) ==
    LET str_value == IF unit_type = "Source" THEN f64_to_string(value) ELSE FormatFixed(value)
    IN  IF Contains(str_value, ".")
        THEN LET t == trim_end_matches(str_value, "0")
             IN  IF ends_with(t, ".") THEN Append(t, "0") ELSE t
        ELSE str_value \o <<".", "0">>

format_value(value, unit_type) == Join(format_chars(value, unit_type))

-----------------------------------------------------------------------------
(* history.rs *)

\* HistoryRecord
HistoryRecord(record) == [value |-> record]

\* History::default (the derived Default: an empty list)
HistoryDefault == <<>>

\* The text of the file is modelled as a sequence of tokens [t, s]
Tok(t) == [t |-> t, s |-> ""]
Garbage == <<Tok("garbage")>>

\* serde_json::to_string_pretty(&History): {"list": [ {"value": ...}, ... ]}
to_string_pretty(list) ==
    <<Tok("{"), Tok("list"), Tok("[")>>
      \o [i \in 1..Len(list) |-> [t |-> "value", s |-> list[i].value]]
      \o <<Tok("]"), Tok("}")>>

\* serde_json::from_str::<History>: Ok(list) for a complete document, Err otherwise
from_str(data) ==
    LET n == Len(data) IN
    IF /\ n >= 5
       /\ SubSeq(data, 1, 3) = <<Tok("{"), Tok("list"), Tok("[")>>
       /\ SubSeq(data, n - 1, n) = <<Tok("]"), Tok("}")>>
       /\ \A i \in 4..(n - 2) : data[i].t = "value"
    THEN Ok([i \in 1..(n - 5) |-> HistoryRecord(data[i + 3].s)])
    ELSE Err("history file: invalid JSON")

\* History::load
load(f) ==
    IF ~f.exists THEN Ok(HistoryDefault) ELSE from_str(f.data)

\* add inserting at the front
add_front(list, record) == <<HistoryRecord(record)>> \o list

\* History::add
add(list, record) == Append(list, HistoryRecord(record))

\* print numbering from 0 (enumerate() without the + 1)
print_zero_based(list) ==
    IF list = <<>>
    THEN [res |-> Err("No conversion history found."), out |-> <<>>]
    ELSE [res |-> Ok(""),
          out |-> <<"Conversion History:">>
                    \o [i \in 1..Len(list) |-> IntToString(i - 1) \o ". " \o list[i].value]]

\* History::print: the Result and the lines printed
print(list) ==
    IF list = <<>>
    THEN [res |-> Err("No conversion history found."), out |-> <<>>]
    ELSE [res |-> Ok(""),
          out |-> <<"Conversion History:">>
                    \o [i \in 1..Len(list) |-> IntToString(i) \o ". " \o list[i].value]]

\* Unit::print: the lines printed
UnitPrint ==
    <<"Supported units:">>
      \o [i \in 1..Len(all_units) |->
            IntToString(i) \o ". [" \o dimension(all_units[i]) \o "] "
              \o UnitToString(all_units[i])]

-----------------------------------------------------------------------------
(* lib.rs: handle_convert *)

\* handle_convert: its Result, the line printed, and `history`, `updated` as it leaves
\* them; ops lists which of convert/append it performed
handle_convert(from, to, value, list) ==
    LET f == get_enum(from, "Source")
        t == get_enum(to, "Target")
        c == convert(f.val, t.val, value)
        str_result == format_value(value, "Source") \o " " \o symbol(f.val) \o " = "
                        \o format_value(c.val, "Target") \o " " \o symbol(t.val)
        failed(m, o) == [res |-> Err(m), out |-> <<>>, list |-> list,
                         updated |-> FALSE, ops |-> o]
    IN  IF ~f.ok THEN failed(f.msg, <<>>)
        ELSE IF ~t.ok THEN failed(t.msg, <<>>)
        ELSE IF ~c.ok THEN failed(c.msg, <<"convert">>)
        ELSE [res |-> Ok(""), out |-> <<str_result>>, list |-> add(list, str_result),
              updated |-> TRUE, ops |-> <<"convert", "append">>]

-----------------------------------------------------------------------------
(* The command lines and files the model runs the program on *)

ProcValues == {Whole(10)}

Commands ==
    [command : {"Convert"}, from : InputNames, to : InputNames, value : ProcValues]
      \cup [command : {"List", "History"}, from : {""}, to : {""}, value : {Whole(0)}]

NoFile == [exists |-> FALSE, data |-> <<>>]

PersistedCount(f) == IF load(f).ok THEN Len(load(f).val) ELSE 0

NoCall == [fn |-> "none", done |-> FALSE]

Init ==
    /\ pc = "idle"
    /\ cli = [command |-> "List", from |-> "", to |-> "", value |-> Whole(0)]
    /\ history = HistoryDefault
    /\ updated = FALSE
    /\ result = Ok("")
    /\ file \in {NoFile, [exists |-> TRUE, data |-> Garbage]}
    /\ stdout = <<>>
    /\ stderr = <<>>
    /\ status = "none"
    /\ exit_code = 0
    /\ load_failed = FALSE
    /\ ops = <<>>
    /\ file0 = file
    /\ committed = <<>>
    /\ committed0 = <<>>
    /\ fp_tie = "down"
    /\ call = NoCall
    /\ ret = <<>>

-----------------------------------------------------------------------------
(* main.rs and lib.rs: one invocation, step by step *)

\* a process is started; run: Cli::parse and the locals
Start(c) ==
    /\ pc = "idle"
    /\ c.command = "Convert" => PersistedCount(file) < MaxRecords
    /\ pc' = "load"
    /\ cli' = c
    /\ history' = HistoryDefault
    /\ updated' = FALSE
    /\ result' = Ok("")
    /\ stdout' = <<>>
    /\ stderr' = <<>>
    /\ status' = "running"
    /\ load_failed' = FALSE
    /\ ops' = <<>>
    /\ file0' = file
    /\ committed0' = committed
    /\ fp_tie' \in (IF c.command = "Convert" THEN {"up", "down"} ELSE {"down"})
    /\ UNCHANGED <<file, exit_code, committed, call, ret>>

\* Result::unwrap_or_default
unwrap_or_default(r) == IF r.ok THEN r.val ELSE HistoryDefault

\* run with `History::load()?`: a load error is returned to main
Load_propagate ==
    /\ pc = "load"
    /\ history' = unwrap_or_default(load(file))
    /\ load_failed' = ~load(file).ok
    /\ updated' = FALSE
    /\ ops' = Append(ops, "load")
    /\ result' = IF load(file).ok THEN result ELSE Err(load(file).msg)
    /\ pc' = IF load(file).ok THEN "dispatch" ELSE "main"
    /\ UNCHANGED <<cli, file, stdout, stderr, status, exit_code, file0, committed,
                   committed0, fp_tie, call, ret>>

\* run: let mut history = History::load().unwrap_or_default(); let mut updated = false
Load ==
    /\ pc = "load"
    /\ history' = unwrap_or_default(load(file))
    /\ load_failed' = ~load(file).ok
    /\ updated' = FALSE
    /\ ops' = Append(ops, "load")
    /\ pc' = "dispatch"
    /\ UNCHANGED <<cli, result, file, stdout, stderr, status, exit_code, file0,
                   committed, committed0, fp_tie, call, ret>>

\* run saving whether or not `updated` is set
AfterMatch_always_save(upd) == "save"

\* run never saving
AfterMatch_never_save(upd) == "main"

\* run: what follows the match when the arm returned Ok: `if updated { history.save() }`
AfterMatch(upd) == IF upd THEN "save" ELSE "main"

\* run: the Convert arm
HandleConvert ==
    /\ pc = "dispatch"
    /\ cli.command = "Convert"
    /\ LET r == handle_convert(cli.from, cli.to, cli.value, history) IN
         /\ stdout' = stdout \o r.out
         /\ history' = r.list
         /\ updated' = r.updated
         /\ ops' = ops \o r.ops
         /\ result' = r.res
         /\ pc' = IF r.res.ok THEN AfterMatch(r.updated) ELSE "main"
    /\ UNCHANGED <<cli, file, stderr, status, exit_code, load_failed, file0,
                   committed, committed0, fp_tie, call, ret>>

\* run: the List arm
ListUnits ==
    /\ pc = "dispatch"
    /\ cli.command = "List"
    /\ stdout' = stdout \o UnitPrint
    /\ result' = Ok("")
    /\ pc' = AfterMatch(updated)
    /\ UNCHANGED <<cli, history, updated, file, stderr, status, exit_code,
                   load_failed, ops, file0, committed, committed0, fp_tie, call,
                   ret>>

\* run: the History arm
ShowHistory ==
    /\ pc = "dispatch"
    /\ cli.command = "History"
    /\ LET r == print(history) IN
         /\ stdout' = stdout \o r.out
         /\ result' = r.res
         /\ pc' = IF r.res.ok THEN AfterMatch(updated) ELSE "main"
    /\ UNCHANGED <<cli, history, updated, file, stderr, status, exit_code,
                   load_failed, ops, file0, committed, committed0, fp_tie, call,
                   ret>>

\* .context("Failed to save conversion history."): Display shows the context alone
SaveError == Err("Failed to save conversion history.")

\* History::save up to fs::write's open: serialize, create_dir_all, open with truncation
SaveOpen ==
    /\ pc = "save"
    /\ file' = [exists |-> TRUE, data |-> <<>>]
    /\ ops' = Append(ops, "save")
    /\ pc' = "write"
    /\ UNCHANGED <<cli, history, updated, result, stdout, stderr, status,
                   exit_code, load_failed, file0, committed, committed0, fp_tie,
                   call, ret>>

\* History::save: create_dir_all or the open fails; the file is not touched
SaveOpenFail ==
    /\ pc = "save"
    /\ result' = SaveError
    /\ ops' = Append(ops, "save")
    /\ pc' = "main"
    /\ UNCHANGED <<cli, history, updated, file, stdout, stderr, status, exit_code,
                   load_failed, file0, committed, committed0, fp_tie, call, ret>>

\* write_all reporting success one token short
SaveWrite_short ==
    /\ pc = "write"
    /\ file' = [exists |-> TRUE,
                data |-> SubSeq(to_string_pretty(history), 1,
                                Len(to_string_pretty(history)) - 1)]
    /\ result' = Ok("")
    /\ committed' = [i \in 1..Len(history) |-> history[i].value]
    /\ pc' = "main"
    /\ UNCHANGED <<cli, history, updated, stdout, stderr, status, exit_code,
                   load_failed, ops, file0, committed0, fp_tie, call, ret>>

\* History::save: fs::write's write_all completes
SaveWrite ==
    /\ pc = "write"
    /\ file' = [exists |-> TRUE, data |-> to_string_pretty(history)]
    /\ result' = Ok("")
    /\ committed' = [i \in 1..Len(history) |-> history[i].value]
    /\ pc' = "main"
    /\ UNCHANGED <<cli, history, updated, stdout, stderr, status, exit_code,
                   load_failed, ops, file0, committed0, fp_tie, call, ret>>

\* History::save: write_all fails after k tokens reached the file
SaveWriteFail ==
    /\ pc = "write"
    /\ \E k \in 0..(Len(to_string_pretty(history)) - 1) :
         file' = [exists |-> TRUE, data |-> SubSeq(to_string_pretty(history), 1, k)]
    /\ result' = SaveError
    /\ pc' = "main"
    /\ UNCHANGED <<cli, history, updated, stdout, stderr, status, exit_code,
                   load_failed, ops, file0, committed, committed0, fp_tie, call,
                   ret>>

\* main: if let Err(e) = run() { eprintln!("{}", e) }, then main returns
Main ==
    /\ pc = "main"
    /\ stderr' = IF result.ok THEN stderr ELSE Append(stderr, result.msg)
    /\ status' = "exited"
    /\ exit_code' = 0
    /\ pc' = "idle"
    /\ UNCHANGED <<cli, history, updated, result, file, stdout, load_failed, ops,
                   file0, committed, committed0, fp_tie, call, ret>>

\* the process is stopped from outside (kill, power loss) at any point
Crash ==
    /\ pc /= "idle"
    /\ status = "running"
    /\ status' = "killed"
    /\ pc' = "idle"
    /\ UNCHANGED <<cli, history, updated, result, file, stdout, stderr, exit_code,
                   load_failed, ops, file0, committed, committed0, fp_tie, call,
                   ret>>

Next ==
    \/ \E c \in Commands : Start(c)
    \/ Load
    \/ HandleConvert
    \/ ListUnits
    \/ ShowHistory
    \/ SaveOpen
    \/ SaveOpenFail
    \/ SaveWrite
    \/ SaveWriteFail
    \/ Main
    \/ Crash

Spec == Init /\ [][Next]_vars

-----------------------------------------------------------------------------
(* The pure functions convert and format_value, applied to drawn arguments *)

ConvValues ==
    {Rat(n, d) : n \in (-MaxNum)..MaxNum, d \in {1, 2, 10}}
      \cup {Whole(100), Whole(212)}

\* decimals with at most five fractional digits: every tie and near-tie of the
\* fourth digit around zero, and some larger values
FmtValues ==
    {Rat(n, 100000) : n \in (-5 * MaxNum)..(5 * MaxNum)}
      \cup {Whole(100), Whole(5), Rat(986, 10), Rat(3333333, 100000),
            Rat(99995, 100000), Rat(999996, 100000), Rat(12345, 10),
            Rat(396875, 100000), Rat(-25, 10)}

ConvCalls ==
    [fn : {"convert"}, from : Unit, to : Unit, value : ConvValues, done : {FALSE}]

FmtCalls ==
    [fn : {"format_value"}, value : FmtValues, unit_type : {"Source", "Target"},
     done : {FALSE}]

InitFn ==
    /\ pc = "fn"
    /\ cli = [command |-> "List", from |-> "", to |-> "", value |-> Whole(0)]
    /\ history = HistoryDefault
    /\ updated = FALSE
    /\ result = Ok("")
    /\ file = NoFile
    /\ stdout = <<>>
    /\ stderr = <<>>
    /\ status = "none"
    /\ exit_code = 0
    /\ load_failed = FALSE
    /\ ops = <<>>
    /\ file0 = NoFile
    /\ committed = <<>>
    /\ committed0 = <<>>
    /\ fp_tie \in {"up", "down"}
    /\ call \in ConvCalls \cup FmtCalls
    /\ ret = <<>>

ProcVars == <<pc, cli, history, updated, result, file, stdout, stderr, status,
              exit_code, load_failed, ops, file0, committed, committed0, fp_tie>>

ApplyConvert ==
    /\ call.fn = "convert"
    /\ ~call.done
    /\ LET c == convert(call.from, call.to, call.value) IN
         ret' = [res |-> c,
                 shown |-> IF c.ok THEN format_chars(c.val, "Target") ELSE <<>>]
    /\ call' = [call EXCEPT !.done = TRUE]
    /\ UNCHANGED ProcVars

ApplyFormat ==
    /\ call.fn = "format_value"
    /\ ~call.done
    /\ ret' = [chars |-> format_chars(call.value, call.unit_type),
               str |-> format_value(call.value, call.unit_type)]
    /\ call' = [call EXCEPT !.done = TRUE]
    /\ UNCHANGED ProcVars

NextFn == ApplyConvert \/ ApplyFormat

SpecFn == InitFn /\ [][NextFn]_vars

-----------------------------------------------------------------------------
(* Vocabulary of the properties *)

\* an invocation has run to its end: main returned
Exited == pc = "idle" /\ status = "exited"

Performed(op) == \E i \in 1..Len(ops) : ops[i] = op

\* the record texts physically present in a file, parseable or not
RecordsIn(f) ==
    LET idx == {i \in 1..Len(f.data) : f.data[i].t = "value"}
        nth[k \in 0..Cardinality(idx)] ==
            IF k = 0 THEN <<>>
            ELSE LET i == CHOOSE j \in idx :
                              Cardinality({m \in idx : m <= j}) = k
                 IN  Append(nth[k - 1], f.data[i].s)
    IN  nth[Cardinality(idx)]

IsPrefix(p, q) == Len(p) <= Len(q) /\ SubSeq(q, 1, Len(p)) = p

\* reading a formatted number back
Unsigned(cs) == IF cs /= <<>> /\ cs[1] = "-" THEN Tail(cs) ELSE cs
DotCount(cs) == Cardinality({i \in 1..Len(cs) : cs[i] = "."})
DotAt(cs) == CHOOSE i \in 1..Len(cs) : cs[i] = "."
FracLen(cs) == Len(cs) - DotAt(cs)
IsDigit(c) == \E k \in 1..10 : DigitChars[k] = c
DigitVal(c) == (CHOOSE k \in 1..10 : DigitChars[k] = c) - 1

WellFormed(cs) ==
    LET u == Unsigned(cs) IN
    /\ DotCount(u) = 1
    /\ DotAt(u) > 1
    /\ \A i \in 1..Len(u) : i /= DotAt(u) => IsDigit(u[i])

RECURSIVE Pow10(_)
Pow10(k) == IF k = 0 THEN 1 ELSE 10 * Pow10(k - 1)

RECURSIVE DigitsValue(_)
DigitsValue(cs) ==
    IF cs = <<>> THEN 0
    ELSE 10 * DigitsValue(SubSeq(cs, 1, Len(cs) - 1)) + DigitVal(cs[Len(cs)])

\* the number a well-formed text denotes, in units of 10^-k (k >= FracLen)
Scaled(cs, k) ==
    LET u == Unsigned(cs)
        ds == SubSeq(u, 1, DotAt(u) - 1) \o SubSeq(u, DotAt(u) + 1, Len(u))
        m == DigitsValue(ds) * Pow10(k - FracLen(u))
    IN  IF cs[1] = "-" THEN -m ELSE m

\* a value of FmtValues in units of 10^-5
InUnits5(v) == v.n * (100000 \div v.d)

ConvertKmMiles10 == [command |-> "Convert", from |-> "km", to |-> "miles", value |-> Whole(10)]

-----------------------------------------------------------------------------
(* Properties *)

\* C1, as stated: when the history file is present but fails to load, the invocation
\* ends in an error with no normal output, no conversion and no write.
C1_CorruptFileAborts ==
    (Exited /\ load_failed) =>
        /\ ~result.ok
        /\ stdout = <<>>
        /\ file = file0
        /\ ~Performed("convert")
        /\ ~Performed("save")

\* C1, amended: when the history file is present but fails to load, the load error is
\* dropped and the command runs on an empty history: list prints its listing and
\* writes nothing, history fails with the empty-history error and writes nothing, and
\* convert behaves as on an empty history, a successful one replacing the file by a
\* history that holds the new record alone.
C1_CorruptFileStartsEmpty ==
    (Exited /\ load_failed) =>
        /\ cli.command = "List" =>
              result.ok /\ stdout = UnitPrint /\ stderr = <<>> /\ file = file0
        /\ cli.command = "History" =>
              /\ ~result.ok
              /\ stderr = <<"No conversion history found.">>
              /\ stdout = <<>>
              /\ file = file0
        /\ cli.command = "Convert" =>
              LET r == handle_convert(cli.from, cli.to, cli.value, HistoryDefault) IN
              /\ stdout = r.out
              /\ ~r.res.ok => (~result.ok /\ stderr = <<r.res.msg>> /\ file = file0)
              /\ result.ok => load(file) = Ok(<<HistoryRecord(stdout[1])>>)

C1_Witness ==
    Exited /\ load_failed /\ cli.command = "Convert" /\ result.ok /\ file /= file0

\* C2, as stated: a successful convert leaves in the file the records that the last
\* successful save before it had persisted, in the same order, followed by exactly one
\* new record.
C2_AppendOnlyAlways ==
    (Exited /\ cli.command = "Convert" /\ result.ok) =>
        RecordsIn(file) = Append(committed0, stdout[1])

\* C2, amended: a successful convert leaves a file that loads, holding the records
\* that were in it before followed by the one new record when the file was absent or
\* loaded successfully, and holding the new record alone when the file was present
\* but failed to load.
C2_AppendOnlyWhenLoaded ==
    (Exited /\ cli.command = "Convert" /\ result.ok) =>
        /\ load(file).ok
        /\ RecordsIn(file) = IF load(file0).ok
                             THEN Append(RecordsIn(file0), stdout[1])
                             ELSE <<stdout[1]>>

C2_Witness ==
    /\ Exited /\ cli.command = "Convert" /\ result.ok
    /\ load(file0).ok /\ Len(RecordsIn(file0)) >= 1
    /\ Len(RecordsIn(file)) = Len(RecordsIn(file0)) + 1

\* C3: the file differs from what it was at the start of the invocation, or a save
\* was attempted, only in an invocation of convert whose conversion succeeded; list,
\* history and a failing convert write nothing.
C3_WritesOnlyAfterSuccessfulConvert ==
    (file /= file0 \/ Performed("save")) =>
        /\ cli.command = "Convert"
        /\ get_enum(cli.from, "Source").ok
        /\ get_enum(cli.to, "Target").ok
        /\ dimension(get_enum(cli.from, "Source").val)
             = dimension(get_enum(cli.to, "Target").val)

C3_Witness ==
    /\ Exited /\ cli.command = "Convert" /\ ~result.ok
    /\ Len(RecordsIn(file0)) >= 1 /\ load(file0).ok
    /\ file = file0 /\ ~Performed("save")

\* C4: convert returns Ok exactly for the pairs of units of one dimension, and Err,
\* with the incompatible-categories message, for every cross-dimension pair.
C4_ConvertIffSameDimension ==
    (call.fn = "convert" /\ call.done) =>
        LET temp == {"Celsius", "Fahrenheit", "Kelvin"} IN
        /\ ret.res.ok <=> ((call.from \in temp) <=> (call.to \in temp))
        /\ (call.from = "Celsius" /\ call.to = "Inch") =>
              ret.res.msg = "Error: [ERROR] Cannot convert between different unit categories: [temperature] celsius → [length] inch"

C4_Witness ==
    call.fn = "convert" /\ call.done /\ call.from = "Celsius" /\ call.to = "Inch" /\ ~ret.res.ok

\* C5, as stated: an invocation whose command returned an error prints the message to
\* standard error and exits with a non-zero status; the status is zero only on success.
C5_ErrorsExitNonZero ==
    Exited =>
        /\ ~result.ok => (stderr = <<result.msg>> /\ exit_code /= 0)
        /\ exit_code = 0 => result.ok

\* C6: the history command fails with the empty-history error, printing nothing,
\* exactly when the loaded history has no record; otherwise it prints the records in
\* file order, the i-th as "i. <text>".  With no history file it fails.
C6_PrintHistory ==
    (Exited /\ cli.command = "History") =>
        /\ ~result.ok <=> Len(history) = 0
        /\ ~result.ok => (result.msg = "No conversion history found." /\ stdout = <<>>)
        /\ result.ok =>
              /\ Len(stdout) = Len(history) + 1
              /\ \A i \in 1..Len(history) :
                    stdout[i + 1] = DigitChars[i + 1] \o ". " \o RecordsIn(file0)[i]
        /\ ~file0.exists => ~result.ok

C6_Witness ==
    Exited /\ cli.command = "History" /\ result.ok /\ Len(history) >= 2

\* C7: a formatted value is a decimal text with at least one fractional digit and no
\* trailing '0' other than a sole fractional digit; for Target it has at most four
\* fractional digits and is the value rounded to the nearest multiple of 0.0001; for
\* Source it denotes the value exactly.  The Target text of every conversion result
\* has the same shape.
C7_FormatValue ==
    /\ (call.fn = "convert" /\ call.done /\ ret.res.ok) =>
          /\ WellFormed(ret.shown)
          /\ FracLen(ret.shown) >= 1
          /\ FracLen(ret.shown) <= Precision
          /\ ret.shown[Len(ret.shown)] = "0" => FracLen(ret.shown) = 1
    /\ (call.fn = "format_value" /\ call.done) =>
        LET cs == ret.chars
            v == call.value
        IN  /\ WellFormed(cs)
            /\ FracLen(cs) >= 1
            /\ cs[Len(cs)] = "0" => FracLen(cs) = 1
            /\ ret.str = Join(cs)
            /\ call.unit_type = "Target" =>
                  /\ FracLen(cs) <= Precision
                  /\ Abs(10 * Scaled(cs, 4) - InUnits5(v)) <= 5
            /\ call.unit_type = "Source" =>
                  /\ FracLen(cs) <= 5
                  /\ Scaled(cs, 5) = InUnits5(v)
            /\ (v = Whole(100) /\ call.unit_type = "Target") => ret.str = "100.0"
            /\ (v = Rat(986, 10) /\ call.unit_type = "Target") => ret.str = "98.6"
            /\ (v = Rat(3333333, 100000) /\ call.unit_type = "Target") => ret.str = "33.3333"
            /\ (v = Whole(5) /\ call.unit_type = "Source") => ret.str = "5.0"

C7_Witness ==
    /\ call.fn = "format_value" /\ call.done /\ call.unit_type = "Target"
    /\ call.value = Whole(100) /\ ret.str = "100.0"

\* C8, as stated: convert --from km --to miles --value 10 prints and appends
\* "10.0 km = 0.0621 miles".
C8_KmToMiles_Stated ==
    (Exited /\ cli = ConvertKmMiles10 /\ result.ok) =>
        /\ stdout = <<"10.0 km = 0.0621 miles">>
        /\ RecordsIn(file)[Len(RecordsIn(file))] = "10.0 km = 0.0621 miles"

\* C8, amended: convert --from km --to miles --value 10 prints, and appends to the
\* history, exactly "10.0 km = 6.2139 miles" (10 * 100000 / 160930 = 6.21388...).
C8_KmToMiles ==
    (Exited /\ cli = ConvertKmMiles10 /\ result.ok) =>
        /\ stdout = <<"10.0 km = 6.2139 miles">>
        /\ history[Len(history)].value = "10.0 km = 6.2139 miles"
        /\ RecordsIn(file)[Len(RecordsIn(file))] = "10.0 km = 6.2139 miles"

C8_Witness ==
    Exited /\ cli = ConvertKmMiles10 /\ result.ok /\ Len(RecordsIn(file)) >= 1

\* C9, as stated: starting from a file that is absent or a complete history, the file
\* is at every moment absent or a complete serialization of a history.
C9_FileAlwaysComplete ==
    load(file0).ok => load(file).ok

\* C9, amended: once save has returned Ok the file is the complete serialization of
\* the whole new sequence; while a save is under way, or after it failed or the
\* process stopped in it, the file is what it was before the save or a proper prefix
\* of the new serialization (possibly empty), which does not load.
C9_CompleteOnceSaved ==
    /\ (Performed("save") /\ result.ok /\ (pc = "main" \/ Exited)) =>
          /\ file.data = to_string_pretty(history)
          /\ load(file) = Ok(history)
    /\ Performed("save") =>
          \/ file = file0
          \/ file.exists /\ IsPrefix(file.data, to_string_pretty(history))
    /\ (Performed("save") /\ file.exists /\ file.data /= to_string_pretty(history)
          /\ file /= file0) => ~load(file).ok

C9_Witness ==
    /\ pc = "idle" /\ status = "killed" /\ Performed("save")
    /\ load(file0).ok /\ Len(RecordsIn(file0)) >= 1
    /\ file.data = <<>>

\* C10: the operations of an invocation are load, then at most one conversion, then at
\* most one append, then at most one save, in that order; an append follows only a
\* successful conversion, and an invocation that ran to its end saved exactly when it
\* appended.
C10_OperationOrder ==
    /\ pc \notin {"idle", "load", "fn"} => (ops /= <<>> /\ ops[1] = "load")
    /\ IsPrefix(ops, <<"load", "convert", "append", "save">>)
    /\ Performed("append") =>
          /\ cli.command = "Convert"
          /\ convert(get_enum(cli.from, "Source").val,
                     get_enum(cli.to, "Target").val, cli.value).ok
    /\ Exited => (Performed("save") <=> Performed("append"))
    /\ Performed("append") <=> updated

C10_Witness ==
    Exited /\ ops = <<"load", "convert", "append", "save">> /\ result.ok

====
